---------------------------- MODULE Spec2Model ----------------------------
(***************************************************************************)
(* Model of src/core/security/secure_endpoint.c: an endpoint that wraps a  *)
(* transport endpoint and passes every byte through a tsi_frame_protector. *)
(*                                                                         *)
(* The endpoint's code is modelled statement group by statement group.    *)
(* Each of the two directions (read, write) is one thread of control with  *)
(* a program counter; the steps are cut at the mutex operations, at the    *)
(* protector calls, at the calls into the wrapped endpoint and at the      *)
(* application's completion, the places where another thread can observe   *)
(* or change the endpoint.                                                 *)
(*                                                                         *)
(* The frame protector and the wrapped endpoint are collaborators whose    *)
(* code is not part of secure_endpoint.c; they are modelled as test        *)
(* doubles that follow the interface the specification gives them.         *)
(* Bytes are integers; a slice is a sequence of bytes and a slice buffer a *)
(* sequence of slices.                                                     *)
(***************************************************************************)
EXTENDS Integers, Sequences, FiniteSets, TLC

(***************************************************************************)
(* Bounds of the model.                                                    *)
(***************************************************************************)
\* Largest staging-buffer capacity explored (STAGING_BUFFER_SIZE, scaled).
MaxCap == 3
\* Largest number of plaintext bytes one write is given.
MaxBytes == 3
\* Largest number of slices in a list the application or the transport hands over.
MaxSegs == 2
\* Largest number of reads and of writes the application issues.
MaxReads == 2
MaxWrites == 2
\* The protector double fails on its j-th call for some j up to MaxFuse (0: never).
MaxFuse == 3
\* Plaintext bytes each side sends while both directions run concurrently.
LiveBytes == 1
\* Writes the application issues while both directions run concurrently, and
\* before the ciphertext travels to the peer.
LiveWrites == 1
\* Operations (reads plus writes) the application issues in sequence.
SeqOps == 3
\* The same, where the drain loops are followed under fair scheduling.
DrainOps == 2

(***************************************************************************)
(* Sequences and slice buffers.                                            *)
(***************************************************************************)
Min(a, b) == IF a < b THEN a ELSE b

Take(s, n) == SubSeq(s, 1, n)

Drop(s, n) == SubSeq(s, n + 1, Len(s))

\* The bytes of a slice buffer, in order.
RECURSIVE Flatten(_)
Flatten(buf) == IF buf = <<>> THEN <<>> ELSE Head(buf) \o Flatten(Tail(buf))

\* gpr_slice_buffer_add: append one slice.
gpr_slice_buffer_add(buf, slice) == Append(buf, slice)

\* The plaintext 1, 2, .., n: every byte names its own position.
Bytes(n) == [k \in 1..n |-> k]

\* Every way to cut s into n slices (empty slices included).
ChopAt(s, n, c) ==
    [k \in 1..n |-> SubSeq(s, (IF k = 1 THEN 0 ELSE c[k - 1]) + 1,
                              IF k = n THEN Len(s) ELSE c[k])]

Chunkings(s) ==
    (IF s = <<>> THEN {<<>>} ELSE {}) \cup
    UNION { { ChopAt(s, n, c) :
                c \in { f \in [1..(n - 1) -> 0..Len(s)] :
                          \A a, b \in 1..(n - 1) : a <= b => f[a] <= f[b] } } :
            n \in 1..MaxSegs }

(***************************************************************************)
(* The frame protector double (tsi_frame_protector).  It frames at most    *)
(* MaxFrame plaintext bytes behind a one-byte header holding the payload   *)
(* length, and "encrypts" a byte by negating it.  protect buffers          *)
(* plaintext until a frame is full, flush closes a partial frame, and      *)
(* both hand out only as many bytes as the caller offers room for.         *)
(* unprotect gathers one frame and hands out its plaintext the same way.   *)
(* fuse = j > 0 makes the j-th call from now fail (failure injection).     *)
(***************************************************************************)
MaxFrame == 2

Seal(frame) == <<Len(frame)>> \o [k \in 1..Len(frame) |-> 0 - frame[k]]

Open(frame) == [k \in 1..(Len(frame) - 1) |-> 0 - frame[k + 1]]

NewProtector(fuse) ==
    [pframe |-> <<>>, pout |-> <<>>, uframe |-> <<>>, uout |-> <<>>, fuse |-> fuse]

Tick(p) == [p EXCEPT !.fuse = IF @ > 0 THEN @ - 1 ELSE 0]

Failed(p) == [result |-> "TSI_ERROR", p |-> Tick(p), consumed |-> 0, out |-> <<>>,
              pending |-> 0]

tsi_frame_protector_protect(p, msg, outsize) ==
    IF p.fuse = 1 THEN Failed(p)
    ELSE
    LET q == Tick(p)
        d1 == Min(outsize, Len(q.pout))
    IN  IF d1 < Len(q.pout)
        THEN [result |-> "TSI_OK", p |-> [q EXCEPT !.pout = Drop(@, d1)],
              consumed |-> 0, out |-> Take(q.pout, d1), pending |-> 0]
        ELSE
        LET n == Min(Len(msg), MaxFrame - Len(q.pframe))
            fr == q.pframe \o Take(msg, n)
            full == Len(fr) = MaxFrame
            sealed == IF full THEN Seal(fr) ELSE <<>>
            d2 == Min(outsize - d1, Len(sealed))
        IN  [result |-> "TSI_OK",
             p |-> [q EXCEPT !.pframe = IF full THEN <<>> ELSE fr,
                             !.pout = Drop(sealed, d2)],
             consumed |-> n, out |-> q.pout \o Take(sealed, d2), pending |-> 0]

tsi_frame_protector_protect_flush(p, outsize) ==
    IF p.fuse = 1 THEN Failed(p)
    ELSE
    LET q == Tick(p)
        closing == q.pout = <<>> /\ q.pframe # <<>>
        sealed == IF closing THEN Seal(q.pframe) ELSE q.pout
        d == Min(outsize, Len(sealed))
    IN  [result |-> "TSI_OK",
         p |-> [q EXCEPT !.pframe = IF closing THEN <<>> ELSE @,
                         !.pout = Drop(sealed, d)],
         consumed |-> 0, out |-> Take(sealed, d), pending |-> Len(sealed) - d]

tsi_frame_protector_unprotect(p, msg, outsize) ==
    IF p.fuse = 1 THEN Failed(p)
    ELSE
    LET q == Tick(p)
        d1 == Min(outsize, Len(q.uout))
    IN  IF d1 < Len(q.uout)
        THEN [result |-> "TSI_OK", p |-> [q EXCEPT !.uout = Drop(@, d1)],
              consumed |-> 0, out |-> Take(q.uout, d1), pending |-> 0]
        ELSE
        LET all == q.uframe \o msg
        IN  IF all = <<>>
            THEN [result |-> "TSI_OK", p |-> [q EXCEPT !.uout = <<>>],
                  consumed |-> 0, out |-> q.uout, pending |-> 0]
            ELSE IF all[1] < 1 \/ all[1] > MaxFrame
            THEN Failed(p)
            ELSE
            LET total == 1 + all[1]
                have == Min(Len(all), total)
                fr == Take(all, have)
                whole == have = total
                opened == IF whole THEN Open(fr) ELSE <<>>
                d2 == Min(outsize - d1, Len(opened))
            IN  [result |-> "TSI_OK",
                 p |-> [q EXCEPT !.uframe = IF whole THEN <<>> ELSE fr,
                                 !.uout = Drop(opened, d2)],
                 consumed |-> have - Len(q.uframe),
                 out |-> q.uout \o Take(opened, d2), pending |-> 0]

\* What a peer with a matching protector sends for the plaintext s.
RECURSIVE Protected(_)
Protected(s) ==
    IF s = <<>> THEN <<>>
    ELSE Seal(Take(s, Min(Len(s), MaxFrame))) \o Protected(Drop(s, Min(Len(s), MaxFrame)))

(***************************************************************************)
(* State.                                                                  *)
(***************************************************************************)
VARIABLES
    staging_size,   \* STAGING_BUFFER_SIZE of this build (scaled to 1..MaxCap)
    ep,             \* the secure_endpoint struct
    freed,          \* how many times destroy(ep) has torn the endpoint down
    rd,             \* the read direction: endpoint_read / on_read_cb / on_read / call_read_cb
    wr,             \* the write direction: endpoint_write
    slices,         \* the application's destination slice buffer (endpoint_read's slices)
    wrapped,        \* the wrapped endpoint double
    app             \* what the application has called and has been told

vars == <<staging_size, ep, freed, rd, wr, slices, wrapped, app>>

\* gpr_slice_malloc(STAGING_BUFFER_SIZE): len bytes of room, none written yet.
gpr_slice_malloc(n) == [len |-> n, mem |-> <<>>]

\* grpc_secure_endpoint_create
grpc_secure_endpoint_create(protector, leftover_slices, size) ==
    [protector |-> protector,
     protector_mu |-> "free",
     read_cb |-> "NULL",
     read_buffer |-> "NULL",
     source_buffer |-> <<>>,
     leftover_bytes |-> leftover_slices,
     read_staging_buffer |-> gpr_slice_malloc(size),
     write_staging_buffer |-> gpr_slice_malloc(size),
     output_buffer |-> <<>>,
     ref |-> 1]

IdleRead ==
    [pc |-> "idle", n |-> 0, path |-> "none", success |-> 1, i |-> 1, off |-> 0,
     cur |-> 0, end |-> 0, keep_looping |-> 0, result |-> "TSI_OK",
     consumed |-> 0, written |-> 0, ret |-> 1, calls |-> 0, failed_at |-> 0,
     emitted |-> <<>>, reported |-> 0, fed |-> <<>>]

\* What stays of a read once on_read's frame is gone: the outcome.
ReadOutcome(r) ==
    [IdleRead EXCEPT !.n = r.n, !.path = r.path, !.success = r.success,
                     !.ret = r.ret, !.failed_at = r.failed_at,
                     !.reported = r.reported]

IdleWrite ==
    [pc |-> "idle", n |-> 0, slices |-> <<>>, phase |-> "protect", i |-> 1, off |-> 0,
     cur |-> 0, end |-> 0, result |-> "TSI_OK", consumed |-> 0, written |-> 0,
     still_pending_size |-> 0, protects |-> 0, flushes |-> 0,
     flushes_pending |-> 0, failed_at |-> 0,
     emitted |-> <<>>, downcalls |-> 0, writes_before |-> 0, status |-> "none"]

\* What stays of a write once endpoint_write has returned: the outcome.
WriteOutcome(w) ==
    [IdleWrite EXCEPT !.n = w.n, !.failed_at = w.failed_at,
                      !.downcalls = w.downcalls, !.writes_before = w.writes_before]

NewWrapped(incoming) ==
    [incoming |-> incoming, rpos |-> 0, shutdown |-> 0, destroyed |-> 0,
     reads |-> 0, writes |-> 0, written |-> <<>>, write_status |-> "none",
     outgoing |-> <<>>, scripted |-> FALSE, script |-> <<>>]

\* Nothing saved: the record a replay comparison fills in.
NoSaved ==
    [phase |-> "none", fuse |-> 0, leftover |-> <<>>, status |-> "none",
     bytes |-> <<>>, protector |-> NewProtector(0), staging |-> gpr_slice_malloc(0)]

NewApp(plaintext) ==
    [plaintext |-> plaintext, destroy_called |-> FALSE, read_status |-> "none",
     read_cbs |-> 0, read_cb_success |-> 1, write_cbs |-> 0,
     sent |-> <<>>, received |-> <<>>, side |-> "sender", saved |-> NoSaved]


(***************************************************************************)
(* Reference counting and teardown.                                        *)
(***************************************************************************)
\* destroy(secure_ep): release everything the endpoint owns.
destroy(e) ==
    [e EXCEPT !.leftover_bytes = <<>>,
              !.read_staging_buffer = gpr_slice_malloc(0),
              !.write_staging_buffer = gpr_slice_malloc(0),
              !.output_buffer = <<>>,
              !.source_buffer = <<>>]

\* gpr_unref: true when the count drops to zero.
gpr_unref(count) == count - 1 = 0

\* Faulty variant of secure_endpoint_unref: every unref tears the endpoint down.
secure_endpoint_unref_always_destroys(e, f, w) ==
    [ep |-> destroy([e EXCEPT !.ref = @ - 1]), freed |-> f + 1,
     wrapped |-> [w EXCEPT !.destroyed = @ + 1]]

\* secure_endpoint_unref: drop one reference, tear down on the last one.
secure_endpoint_unref(e, f, w) ==
    IF gpr_unref(e.ref)
    THEN [ep |-> destroy([e EXCEPT !.ref = @ - 1]), freed |-> f + 1,
          wrapped |-> [w EXCEPT !.destroyed = @ + 1]]
    ELSE [ep |-> [e EXCEPT !.ref = @ - 1], freed |-> f, wrapped |-> w]

\* Faulty variant of secure_endpoint_ref: the count is not raised.
secure_endpoint_ref_lost(e) == e

\* secure_endpoint_ref
secure_endpoint_ref(e) == [e EXCEPT !.ref = @ + 1]

\* Faulty variant of gpr_mu_unlock: the mutex stays with its holder.
gpr_mu_unlock_forgotten(mu) == mu

\* gpr_mu_unlock(&ep->protector_mu), lines 165, 289 and 313.
gpr_mu_unlock(mu) == "free"

\* Faulty variant of gpr_mu_lock_may_return: the lock is handed out while it is held.
gpr_mu_lock_never_waits(mu) == TRUE

\* gpr_mu_lock returns only once the mutex is free.
gpr_mu_lock_may_return(mu) == mu = "free"

(***************************************************************************)
(* The wrapped endpoint double.  Its peer sends the byte stream            *)
(* wrapped.incoming; a read hands over the next few bytes of it, cut into  *)
(* slices any way, or stays pending, or fails, and a read that fails may   *)
(* leave a slice in the list.  After shutdown every operation fails.  A    *)
(* scripted double hands over the slices of its script when it delivers.   *)
(***************************************************************************)
Deliveries(w) ==
    IF w.scripted THEN {w.script}
    ELSE UNION { Chunkings(SubSeq(w.incoming, w.rpos + 1, w.rpos + k)) :
                 k \in 0..(Len(w.incoming) - w.rpos) }

Delivered(w, data) ==
    [w EXCEPT !.rpos = @ + Len(Flatten(data)), !.scripted = FALSE, !.script = <<>>]

\* What a read of the wrapped endpoint that fails may leave in the list it was
\* given: nothing, or a slice it had already placed there.
FailedDeliveries(w) == {<<>>, <<<<0>>>>}

(***************************************************************************)
(* The read direction.                                                     *)
(***************************************************************************)
\* Faulty variant of ReadLoopHead: the while loop tests message_size alone.
RECURSIVE ReadLoopHeadNoKeep(_, _)
ReadLoopHeadNoKeep(r, src) ==
    IF r.i > Len(src) THEN [r EXCEPT !.pc = "tail"]
    ELSE IF Len(src[r.i]) - r.off > 0
         THEN [r EXCEPT !.pc = "lock"]
         ELSE ReadLoopHeadNoKeep([r EXCEPT !.i = @ + 1, !.off = 0], src)

\* Lines 153-158: the head of the for loop over source_buffer and of the
\* while loop over one slice: the next protector call, or the end of both.
RECURSIVE ReadLoopHead(_, _)
ReadLoopHead(r, src) ==
    IF r.i > Len(src) THEN [r EXCEPT !.pc = "tail"]
    ELSE IF Len(src[r.i]) - r.off > 0 \/ r.keep_looping = 1
         THEN [r EXCEPT !.pc = "lock"]
         ELSE ReadLoopHead([r EXCEPT !.i = @ + 1, !.off = 0], src)

\* Faulty variant of SwapLeftover: the first leftover slice is lost in the move.
SwapLeftoverDropsFirst(e) ==
    [e EXCEPT !.leftover_bytes = e.source_buffer,
              !.source_buffer = Tail(e.leftover_bytes)]

\* Faulty variant of SwapLeftover: the leftover is copied, not moved.
CopyLeftover(e) == [e EXCEPT !.source_buffer = e.leftover_bytes]

\* Line 225: gpr_slice_buffer_swap(&ep->leftover_bytes, &ep->source_buffer).
SwapLeftover(e) ==
    [e EXCEPT !.leftover_bytes = e.source_buffer,
              !.source_buffer = e.leftover_bytes]

\* endpoint_read, lines 218-241: up to the return of the wrapped endpoint's read.
EndpointRead ==
    /\ rd.pc = "idle"
    /\ ~app.destroy_called
    /\ rd.n < MaxReads
    /\ slices' = <<>>
    /\ LET e == [ep EXCEPT !.read_cb = "cb", !.read_buffer = "slices"]
           r == [IdleRead EXCEPT !.n = rd.n + 1]
       IN  IF Len(e.leftover_bytes) > 0
           THEN /\ ep' = SwapLeftover(e)
                /\ rd' = [r EXCEPT !.pc = "on_read", !.path = "leftover",
                                   !.success = 1, !.fed = e.leftover_bytes]
                /\ UNCHANGED <<wrapped, app>>
           ELSE \/ \E data \in Deliveries(wrapped) :
                     /\ wrapped.shutdown = 0
                     /\ ep' = [secure_endpoint_ref(e) EXCEPT !.source_buffer = data]
                     /\ wrapped' = [Delivered(wrapped, data) EXCEPT !.reads = @ + 1]
                     /\ rd' = [r EXCEPT !.pc = "on_read", !.path = "immediate",
                                        !.success = 1, !.fed = data]
                     /\ UNCHANGED app
                \/ /\ wrapped.shutdown = 0
                   /\ ep' = [secure_endpoint_ref(e) EXCEPT !.source_buffer = <<>>]
                   /\ wrapped' = [wrapped EXCEPT !.reads = @ + 1]
                   /\ rd' = [r EXCEPT !.pc = "pending", !.path = "pending"]
                   /\ app' = [app EXCEPT !.read_status = "PENDING"]
                \/ \E left \in FailedDeliveries(wrapped) :
                     /\ ep' = [secure_endpoint_ref(e) EXCEPT !.source_buffer = left]
                     /\ wrapped' = [wrapped EXCEPT !.reads = @ + 1]
                     /\ rd' = [r EXCEPT !.pc = "on_read", !.path = "immediate",
                                        !.success = 0]
                     /\ UNCHANGED app
    /\ UNCHANGED <<staging_size, freed, wr>>

\* on_read_cb, line 212: the wrapped endpoint resumes a pending read.
OnReadCb ==
    /\ rd.pc = "pending"
    /\ \/ \E data \in Deliveries(wrapped) :
            /\ wrapped.shutdown = 0
            /\ ep' = [ep EXCEPT !.source_buffer = data]
            /\ wrapped' = Delivered(wrapped, data)
            /\ rd' = [rd EXCEPT !.pc = "on_read", !.success = 1, !.fed = data]
       \/ \E left \in FailedDeliveries(wrapped) :
            /\ ep' = [ep EXCEPT !.source_buffer = left]
            /\ rd' = [rd EXCEPT !.pc = "on_read", !.success = 0]
            /\ UNCHANGED wrapped
    /\ UNCHANGED <<staging_size, freed, wr, slices, app>>

\* Faulty variant of TransportFailed: the success flag is not looked at.
TransportFailedIgnored(success) == FALSE

\* Line 147: if (!success).
TransportFailed(success) == success = 0

\* on_read, lines 143-153: the cursors, the failed-transport exit, the loop head.
OnReadEntry ==
    /\ rd.pc = "on_read"
    /\ LET r == [rd EXCEPT !.cur = 0, !.end = ep.read_staging_buffer.len,
                           !.keep_looping = 0, !.result = "TSI_OK",
                           !.i = 1, !.off = 0]
       IN  IF TransportFailed(rd.success)
           THEN /\ slices' = <<>>
                /\ rd' = [r EXCEPT !.pc = "ret", !.ret = 0]
           ELSE /\ rd' = ReadLoopHead(r, ep.source_buffer)
                /\ UNCHANGED slices
    /\ UNCHANGED <<staging_size, ep, freed, wr, wrapped, app>>

\* on_read, line 161: gpr_mu_lock(&ep->protector_mu).
ReadLock ==
    /\ rd.pc = "lock"
    /\ gpr_mu_lock_may_return(ep.protector_mu)
    /\ ep' = [ep EXCEPT !.protector_mu = "read"]
    /\ rd' = [rd EXCEPT !.pc = "call"]
    /\ UNCHANGED <<staging_size, freed, wr, slices, wrapped, app>>

\* on_read, lines 159-164: one tsi_frame_protector_unprotect call, writing at cur.
ReadCall ==
    /\ rd.pc = "call"
    /\ LET res == tsi_frame_protector_unprotect(
                      ep.protector, Drop(ep.source_buffer[rd.i], rd.off),
                      rd.end - rd.cur)
       IN  /\ ep' = [ep EXCEPT !.protector = res.p,
                               !.read_staging_buffer.mem = Take(@, rd.cur) \o res.out]
           /\ rd' = [rd EXCEPT !.pc = "unlock", !.result = res.result,
                               !.consumed = res.consumed, !.written = Len(res.out),
                               !.calls = @ + 1,
                               !.failed_at = IF res.result # "TSI_OK"
                                             THEN rd.calls + 1 ELSE @,
                               !.emitted = @ \o res.out]
    /\ UNCHANGED <<staging_size, freed, wr, slices, wrapped, app>>

\* Faulty variant of flush_read_staging_buffer: the cursor is left at the end of
\* the buffer that was sealed.
flush_read_staging_buffer_keeps_cur(e, dest, size) ==
    [ep |-> [e EXCEPT !.read_staging_buffer = gpr_slice_malloc(size)],
     dest |-> gpr_slice_buffer_add(dest, e.read_staging_buffer.mem),
     cur |-> size, end |-> size]

\* flush_read_staging_buffer: seal the full staging buffer into read_buffer.
flush_read_staging_buffer(e, dest, size) ==
    [ep |-> [e EXCEPT !.read_staging_buffer = gpr_slice_malloc(size)],
     dest |-> gpr_slice_buffer_add(dest, e.read_staging_buffer.mem),
     cur |-> 0, end |-> size]

\* Faulty variant of KeepLooping: the flag is never cleared.
KeepLoopingAlways(sealed, written) == 1

\* Faulty variant of KeepLooping: no extra pass is forced after a seal.
KeepLoopingNotAfterSeal(sealed, written) ==
    IF sealed THEN 0 ELSE IF written > 0 THEN 1 ELSE 0

\* Lines 175-186: keep_looping after a call, by whether the staging buffer was
\* just sealed (cur == end) and by what the call wrote.
KeepLooping(sealed, written) ==
    IF sealed THEN 1 ELSE IF written > 0 THEN 1 ELSE 0

\* on_read, lines 165-188: unlock, then the rest of the loop body and the loop head.
ReadUnlock ==
    /\ rd.pc = "unlock"
    /\ LET e == [ep EXCEPT !.protector_mu = gpr_mu_unlock(@)]
       IN  IF rd.result # "TSI_OK"
           THEN /\ ep' = e
                /\ rd' = [rd EXCEPT !.pc = "tail"]
                /\ UNCHANGED slices
           ELSE LET r == [rd EXCEPT !.off = @ + rd.consumed, !.cur = @ + rd.written]
                IN  IF r.cur = r.end
                    THEN LET f == flush_read_staging_buffer(e, slices, staging_size)
                         IN  /\ ep' = f.ep
                             /\ slices' = f.dest
                             /\ rd' = ReadLoopHead(
                                          [r EXCEPT !.cur = f.cur, !.end = f.end,
                                                    !.keep_looping =
                                                        KeepLooping(TRUE, rd.written)],
                                          e.source_buffer)
                    ELSE /\ ep' = e
                         /\ UNCHANGED slices
                         /\ rd' = ReadLoopHead(
                                      [r EXCEPT !.keep_looping =
                                                    KeepLooping(FALSE, rd.written)],
                                      e.source_buffer)
    /\ UNCHANGED <<staging_size, freed, wr, wrapped, app>>

\* gpr_slice_split_head: the first n bytes leave the slice, the tail stays.
gpr_slice_split_head(slice, n) ==
    [head |-> Take(slice.mem, n), tail |-> [len |-> slice.len - n, mem |-> <<>>]]

\* Faulty variant of OnReadResult: the failure is returned but read_buffer is left as is.
OnReadResultKeeps(result, dest) ==
    [ret |-> IF result # "TSI_OK" THEN 0 ELSE 1, dest |-> dest]

\* Lines 203-208: a failed unprotect empties read_buffer and on_read returns 0.
OnReadResult(result, dest) ==
    IF result # "TSI_OK" THEN [ret |-> 0, dest |-> <<>>]
    ELSE [ret |-> 1, dest |-> dest]

\* on_read, lines 191-208: the partial prefix, the source list, the result.
OnReadTail ==
    /\ rd.pc = "tail"
    /\ LET split == gpr_slice_split_head(ep.read_staging_buffer, rd.cur)
           e == IF rd.cur # 0
                THEN [ep EXCEPT !.read_staging_buffer = split.tail]
                ELSE ep
           dest == IF rd.cur # 0 THEN gpr_slice_buffer_add(slices, split.head)
                   ELSE slices
           out == OnReadResult(rd.result, dest)
       IN  /\ ep' = [e EXCEPT !.source_buffer = <<>>]
           /\ slices' = out.dest
           /\ rd' = [rd EXCEPT !.pc = "ret", !.ret = out.ret]
    /\ UNCHANGED <<staging_size, freed, wr, wrapped, app>>

\* endpoint_read, lines 227 and 244-247: the synchronous return.
EndpointReadReturn ==
    /\ rd.pc = "ret"
    /\ rd.path \in {"leftover", "immediate"}
    /\ LET u == IF rd.path = "immediate"
                THEN secure_endpoint_unref(ep, freed, wrapped)
                ELSE [ep |-> ep, freed |-> freed, wrapped |-> wrapped]
       IN  /\ ep' = u.ep
           /\ freed' = u.freed
           /\ wrapped' = u.wrapped
    /\ rd' = [ReadOutcome(rd) EXCEPT !.pc = "idle", !.reported = @ + 1]
    /\ app' = [app EXCEPT !.read_status = IF rd.ret = 1 THEN "DONE" ELSE "ERROR",
                          !.received = IF rd.ret = 1 THEN @ \o Flatten(slices) ELSE @]
    /\ UNCHANGED <<staging_size, wr, slices>>

\* call_read_cb, lines 134-135: the application's completion is invoked.
CallReadCb ==
    /\ rd.pc = "ret"
    /\ rd.path = "pending"
    /\ ep' = [ep EXCEPT !.read_buffer = "NULL"]
    /\ rd' = [ReadOutcome(rd) EXCEPT !.pc = "in_cb", !.reported = @ + 1]
    /\ app' = [app EXCEPT !.read_cbs = @ + 1, !.read_cb_success = rd.ret,
                          !.received = IF rd.ret = 1 THEN @ \o Flatten(slices) ELSE @]
    /\ UNCHANGED <<staging_size, freed, wr, slices, wrapped>>

\* call_read_cb, line 136: the completion has returned; the read's reference goes.
CallReadCbUnref ==
    /\ rd.pc = "in_cb"
    /\ LET u == secure_endpoint_unref(ep, freed, wrapped)
       IN  /\ ep' = u.ep
           /\ freed' = u.freed
           /\ wrapped' = u.wrapped
    /\ rd' = [rd EXCEPT !.pc = "idle"]
    /\ UNCHANGED <<staging_size, wr, slices, app>>

(***************************************************************************)
(* The write direction.                                                    *)
(***************************************************************************)
\* What the application may pass to write: the next bytes of its plaintext, in
\* any slicing.
WriteInputs(a) ==
    UNION { Chunkings(SubSeq(a.plaintext, Len(a.sent) + 1, Len(a.sent) + n)) :
            n \in 0..(Len(a.plaintext) - Len(a.sent)) }

\* Lines 278-282 and 305-307: the head of the for loop over slices and of the
\* while loop over one slice; after the last slice, the first flush call.
RECURSIVE WriteLoopHead(_)
WriteLoopHead(w) ==
    IF w.i > Len(w.slices) THEN [w EXCEPT !.phase = "flush", !.pc = "lock"]
    ELSE IF Len(w.slices[w.i]) - w.off > 0
         THEN [w EXCEPT !.pc = "lock"]
         ELSE WriteLoopHead([w EXCEPT !.i = @ + 1, !.off = 0])

\* endpoint_write, lines 261-282: the cursors, the output list reset, the loop head.
EndpointWrite ==
    /\ wr.pc = "idle"
    /\ ~app.destroy_called
    /\ wr.n < MaxWrites
    /\ \E input \in WriteInputs(app) :
          wr' = WriteLoopHead([IdleWrite EXCEPT !.n = wr.n + 1, !.slices = input,
                                                !.writes_before = wrapped.writes,
                                                !.cur = 0,
                                                !.end = ep.write_staging_buffer.len])
    /\ ep' = [ep EXCEPT !.output_buffer = <<>>]
    /\ UNCHANGED <<staging_size, freed, rd, slices, wrapped, app>>

\* endpoint_write, lines 285 and 309: gpr_mu_lock(&ep->protector_mu).
WriteLock ==
    /\ wr.pc = "lock"
    /\ gpr_mu_lock_may_return(ep.protector_mu)
    /\ ep' = [ep EXCEPT !.protector_mu = "write"]
    /\ wr' = [wr EXCEPT !.pc = "call"]
    /\ UNCHANGED <<staging_size, freed, rd, slices, wrapped, app>>

\* endpoint_write, lines 283-288 and 308-312: one protect or one flush call.
WriteCall ==
    /\ wr.pc = "call"
    /\ LET res == IF wr.phase = "protect"
                  THEN tsi_frame_protector_protect(
                           ep.protector, Drop(wr.slices[wr.i], wr.off),
                           wr.end - wr.cur)
                  ELSE tsi_frame_protector_protect_flush(
                           ep.protector, wr.end - wr.cur)
       IN  /\ ep' = [ep EXCEPT !.protector = res.p,
                               !.write_staging_buffer.mem = Take(@, wr.cur) \o res.out]
           /\ wr' = [wr EXCEPT !.pc = "unlock", !.result = res.result,
                               !.consumed = res.consumed, !.written = Len(res.out),
                               !.still_pending_size = res.pending,
                               !.protects = IF wr.phase = "protect" THEN @ + 1 ELSE @,
                               !.flushes = IF wr.phase = "flush" THEN @ + 1 ELSE @,
                               !.flushes_pending =
                                   IF wr.phase = "flush" /\ res.pending > 0
                                   THEN @ + 1 ELSE @,
                               !.failed_at = IF res.result # "TSI_OK"
                                             THEN wr.protects + wr.flushes + 1 ELSE @,
                               !.emitted = @ \o res.out]
    /\ UNCHANGED <<staging_size, freed, rd, slices, wrapped, app>>

\* Faulty variant of flush_write_staging_buffer: the full buffer is replaced
\* without joining output_buffer.
flush_write_staging_buffer_drops(e, size) ==
    [ep |-> [e EXCEPT !.write_staging_buffer = gpr_slice_malloc(size)],
     cur |-> 0, end |-> size]

\* flush_write_staging_buffer: seal the full staging buffer into output_buffer.
flush_write_staging_buffer(e, size) ==
    [ep |-> [e EXCEPT !.output_buffer =
                          gpr_slice_buffer_add(@, e.write_staging_buffer.mem),
                      !.write_staging_buffer = gpr_slice_malloc(size)],
     cur |-> 0, end |-> size]

\* Faulty variant of FlushAgain: flush is called once whatever it reports.
FlushOnce(still_pending_size) == FALSE

\* Line 319: the flush loop goes round again while the protector reports pending bytes.
FlushAgain(still_pending_size) == still_pending_size > 0

\* endpoint_write, lines 289-304 and 313-319: unlock, then the rest of the loop
\* body and the loop head.
WriteUnlock ==
    /\ wr.pc = "unlock"
    /\ LET e == [ep EXCEPT !.protector_mu = gpr_mu_unlock(@)]
       IN  IF wr.result # "TSI_OK"
           THEN /\ ep' = e
                /\ wr' = [wr EXCEPT !.pc = "tail"]
           ELSE LET w == [wr EXCEPT !.off = @ + wr.consumed, !.cur = @ + wr.written]
                    full == w.cur = w.end
                    f == flush_write_staging_buffer(e, staging_size)
                    w2 == IF full THEN [w EXCEPT !.cur = f.cur, !.end = f.end] ELSE w
                IN  /\ ep' = IF full THEN f.ep ELSE e
                    /\ wr' = IF wr.phase = "protect" THEN WriteLoopHead(w2)
                             ELSE IF FlushAgain(w2.still_pending_size)
                                  THEN [w2 EXCEPT !.pc = "lock"]
                                  ELSE [w2 EXCEPT !.pc = "tail"]
    /\ UNCHANGED <<staging_size, freed, rd, slices, wrapped, app>>

\* Faulty variant of WriteSplit: the partial prefix is left in the staging buffer.
WriteSplitSkipped(e, cur) == e

\* Lines 320-326: the partial prefix of the write staging buffer joins output_buffer.
WriteSplit(e, cur) ==
    IF cur # 0
    THEN LET split == gpr_slice_split_head(e.write_staging_buffer, cur)
         IN  [e EXCEPT !.output_buffer = gpr_slice_buffer_add(@, split.head),
                       !.write_staging_buffer = split.tail]
    ELSE e

\* Faulty variant of DiscardOutput: the output list keeps what was sealed into it.
DiscardOutputSkipped(e) == e

\* Line 331: a failed write empties output_buffer.
DiscardOutput(e) == [e EXCEPT !.output_buffer = <<>>]

\* The status the wrapped endpoint's write may return.
WrappedWriteStatus(w) ==
    IF w.shutdown > 0 THEN {"ERROR"} ELSE {"DONE", "PENDING", "ERROR"}

\* endpoint_write, lines 320-335: the partial prefix, then the failure exit or
\* the wrapped endpoint's write.
EndpointWriteTail ==
    /\ wr.pc = "tail"
    /\ IF wr.result # "TSI_OK"
       THEN /\ ep' = DiscardOutput(ep)
            /\ wr' = [WriteOutcome(wr) EXCEPT !.pc = "idle", !.status = "ERROR"]
            /\ UNCHANGED wrapped
       ELSE LET e == WriteSplit(ep, wr.cur)
            IN  /\ ep' = e
                /\ \E st \in WrappedWriteStatus(wrapped) :
                      /\ wrapped' = [wrapped EXCEPT
                                         !.writes = @ + 1,
                                         !.written = e.output_buffer,
                                         !.write_status = st,
                                         !.outgoing = IF st = "ERROR" THEN @
                                                      ELSE @ \o Flatten(e.output_buffer)]
                      /\ wr' = [WriteOutcome(wr) EXCEPT
                                    !.pc = IF st = "PENDING" THEN "pending" ELSE "idle",
                                    !.status = st, !.downcalls = @ + 1]
    /\ app' = IF wr.result = "TSI_OK" /\ wr'.status # "ERROR"
              THEN [app EXCEPT !.sent = @ \o Flatten(wr.slices)]
              ELSE app
    /\ UNCHANGED <<staging_size, freed, rd, slices>>

\* The wrapped endpoint completes a pending write: the application's completion runs.
WriteCompletion ==
    /\ wr.pc = "pending"
    /\ wr' = [wr EXCEPT !.pc = "idle"]
    /\ app' = [app EXCEPT !.write_cbs = @ + 1]
    /\ UNCHANGED <<staging_size, ep, freed, rd, slices, wrapped>>

(***************************************************************************)
(* shutdown and destroy.                                                   *)
(***************************************************************************)
\* Faulty variant of EndpointShutdown: shutdown also gives up a reference.
EndpointShutdownUnrefs ==
    /\ ~app.destroy_called
    /\ wrapped.shutdown = 0
    /\ LET u == secure_endpoint_unref(ep, freed, wrapped)
       IN  /\ ep' = u.ep
           /\ freed' = u.freed
           /\ wrapped' = [u.wrapped EXCEPT !.shutdown = @ + 1]
    /\ UNCHANGED <<staging_size, rd, wr, slices, app>>

\* endpoint_shutdown
EndpointShutdown ==
    /\ ~app.destroy_called
    /\ wrapped.shutdown = 0
    /\ wrapped' = [wrapped EXCEPT !.shutdown = @ + 1]
    /\ UNCHANGED <<staging_size, ep, freed, rd, wr, slices, app>>

\* endpoint_destroy: called once, with no read or write call executing.
EndpointDestroy ==
    /\ ~app.destroy_called
    /\ rd.pc \in {"idle", "pending", "in_cb"}
    /\ wr.pc \in {"idle", "pending"}
    /\ LET u == secure_endpoint_unref(ep, freed, wrapped)
       IN  /\ ep' = u.ep
           /\ freed' = u.freed
           /\ wrapped' = u.wrapped
    /\ app' = [app EXCEPT !.destroy_called = TRUE]
    /\ UNCHANGED <<staging_size, rd, wr, slices>>

(***************************************************************************)
(* The endpoint in use: one reader, one writer, shutdown and destroy.      *)
(***************************************************************************)
\* The handshaker's leftover: the first bytes of the peer's stream (at most one
\* frame), in any slicing.
Leftovers(wire) ==
    UNION { Chunkings(Take(wire, k)) : k \in 0..Min(MaxFrame + 1, Len(wire)) }

\* A fresh endpoint whose peer sends n plaintext bytes under a matching protector,
\* whose handshaker left one of leftovers, and whose application has n plaintext
\* bytes to write.
InitWith(n, leftovers) ==
    /\ staging_size \in 1..MaxCap
    /\ \E fuse \in 0..MaxFuse, leftover \in leftovers :
          /\ ep = grpc_secure_endpoint_create(NewProtector(fuse), leftover, staging_size)
          /\ wrapped = [NewWrapped(Protected(Bytes(n))) EXCEPT
                            !.rpos = Len(Flatten(leftover))]
    /\ freed = 0
    /\ rd = IdleRead
    /\ wr = IdleWrite
    /\ slices = <<>>
    /\ app = NewApp(Bytes(n))

Init == InitWith(LiveBytes, Leftovers(Protected(Bytes(LiveBytes))))

ReadSteps ==
    \/ EndpointRead
    \/ OnReadCb
    \/ OnReadEntry
    \/ ReadLock
    \/ ReadCall
    \/ ReadUnlock
    \/ OnReadTail
    \/ EndpointReadReturn
    \/ CallReadCb
    \/ CallReadCbUnref

WriteSteps ==
    \/ EndpointWrite
    \/ WriteLock
    \/ WriteCall
    \/ WriteUnlock
    \/ EndpointWriteTail
    \/ WriteCompletion

Next ==
    \/ ReadSteps
    \/ (wr.pc = "idle" => wr.n < LiveWrites) /\ WriteSteps
    \/ EndpointShutdown
    \/ EndpointDestroy

Spec == Init /\ [][Next]_vars

\* The read direction alone, with shutdown and destroy.
NextRead ==
    \/ ReadSteps
    \/ EndpointShutdown
    \/ EndpointDestroy

InitData == InitWith(MaxBytes, Leftovers(Protected(Bytes(MaxBytes))))

SpecRead == InitData /\ [][NextRead]_vars

\* The write direction alone, with shutdown and destroy.
NextWrite ==
    \/ WriteSteps
    \/ EndpointShutdown
    \/ EndpointDestroy

\* The handshaker's leftover plays no part in a write: there is none here.
InitWrite == InitWith(MaxBytes, {<<>>})

SpecWrite == InitWrite /\ [][NextWrite]_vars

(***************************************************************************)
(* Round trip: one endpoint writes; what its wrapped endpoint was handed   *)
(* travels to the peer, an endpoint with a matching protector, which reads *)
(* it in whatever pieces its own wrapped endpoint delivers.                *)
(***************************************************************************)
InitRT ==
    /\ staging_size \in 1..MaxCap
    /\ ep = grpc_secure_endpoint_create(NewProtector(0), <<>>, staging_size)
    /\ wrapped = NewWrapped(<<>>)
    /\ freed = 0
    /\ rd = IdleRead
    /\ wr = IdleWrite
    /\ slices = <<>>
    /\ app = NewApp(Bytes(MaxBytes))

\* From here on the model follows the peer's endpoint.
Travel ==
    /\ app.side = "sender"
    /\ wr.pc = "idle"
    /\ wr.n > 0
    /\ ep' = grpc_secure_endpoint_create(NewProtector(0), <<>>, staging_size)
    /\ wrapped' = NewWrapped(wrapped.outgoing)
    /\ app' = [app EXCEPT !.side = "receiver"]
    /\ wr' = IdleWrite
    /\ UNCHANGED <<staging_size, freed, rd, slices>>

NextRT ==
    \/ app.side = "sender" /\ (wr.pc = "idle" => wr.n < LiveWrites) /\ WriteSteps
    \/ Travel
    \/ app.side = "receiver" /\ ReadSteps

SpecRT == InitRT /\ [][NextRT]_vars

(***************************************************************************)
(* Leftover replay: a first endpoint is created with leftover L and reads  *)
(* once; then a second endpoint, created the same way but with no          *)
(* leftover, reads once from a wrapped endpoint that delivers L.           *)
(***************************************************************************)
InitReplay ==
    /\ staging_size \in 1..MaxCap
    /\ \E fuse \in 0..MaxFuse, leftover \in Leftovers(Protected(Bytes(MaxBytes))) :
          /\ Len(leftover) > 0
          /\ ep = grpc_secure_endpoint_create(NewProtector(fuse), leftover, staging_size)
          /\ wrapped = [NewWrapped(Protected(Bytes(MaxBytes))) EXCEPT
                            !.rpos = Len(Flatten(leftover))]
          /\ app = [NewApp(<<>>) EXCEPT !.saved.phase = "first",
                                        !.saved.fuse = fuse,
                                        !.saved.leftover = leftover]
    /\ freed = 0
    /\ rd = IdleRead
    /\ wr = IdleWrite
    /\ slices = <<>>

\* The first endpoint's read has returned: keep what it gave, start the second.
Replay ==
    /\ app.saved.phase = "first"
    /\ rd.pc = "idle"
    /\ rd.n = 1
    /\ app' = [NewApp(<<>>) EXCEPT
                  !.saved = [app.saved EXCEPT !.phase = "second",
                                              !.status = app.read_status,
                                              !.bytes = Flatten(slices),
                                              !.protector = ep.protector,
                                              !.staging = ep.read_staging_buffer]]
    /\ ep' = grpc_secure_endpoint_create(NewProtector(app.saved.fuse), <<>>,
                                         staging_size)
    /\ wrapped' = [NewWrapped(Flatten(app.saved.leftover)) EXCEPT
                       !.scripted = TRUE, !.script = app.saved.leftover]
    /\ rd' = IdleRead
    /\ slices' = <<>>
    /\ UNCHANGED <<staging_size, freed, wr>>

\* Each of the two endpoints reads once.
NextReplay ==
    \/ rd.n = 0 /\ EndpointRead
    \/ rd.pc # "idle" /\ ReadSteps
    \/ Replay

SpecReplay == InitReplay /\ [][NextReplay]_vars

(***************************************************************************)
(* Reads and writes in sequence: the application issues its reads and its  *)
(* writes one call at a time, each call running to its return before the   *)
(* next starts; a read or a write may stay pending in the wrapped endpoint *)
(* across calls of the other direction.  SeqOps calls are issued in all.   *)
(***************************************************************************)
NextSeq ==
    \/ /\ wr.pc \in {"idle", "pending"}
       /\ rd.pc = "idle" => rd.n + wr.n < SeqOps
       /\ ReadSteps
    \/ /\ rd.pc \in {"idle", "pending"}
       /\ wr.pc = "idle" => rd.n + wr.n < SeqOps
       /\ WriteSteps

SpecSeq == InitData /\ [][NextSeq]_vars

(***************************************************************************)
(* The drain loops under fair scheduling.  on_read and endpoint_write are  *)
(* synchronous code with no suspension point: the thread that runs one     *)
(* keeps taking its steps, and gpr_mu_lock returns once the mutex is free. *)
(***************************************************************************)
\* The steps of on_read.
ReadDrain ==
    \/ OnReadEntry
    \/ ReadLock
    \/ ReadCall
    \/ ReadUnlock
    \/ OnReadTail

\* The steps of endpoint_write after its entry.
WriteDrain ==
    \/ WriteLock
    \/ WriteCall
    \/ WriteUnlock
    \/ EndpointWriteTail

\* DrainOps calls in sequence, as in NextSeq.
NextDrain ==
    \/ /\ wr.pc \in {"idle", "pending"}
       /\ rd.pc = "idle" => rd.n + wr.n < DrainOps
       /\ ReadSteps
    \/ /\ rd.pc \in {"idle", "pending"}
       /\ wr.pc = "idle" => rd.n + wr.n < DrainOps
       /\ WriteSteps

SpecDrain == Init /\ [][NextDrain]_vars /\ WF_vars(ReadDrain) /\ WF_vars(WriteDrain)

(***************************************************************************)
(* Properties.                                                             *)
(***************************************************************************)
IsPrefix(s, t) == Len(s) <= Len(t) /\ s = Take(t, Len(s))

\* The pcs at which a read's locals (cursors, counters) are live.
ReadLive == {"on_read", "lock", "call", "unlock", "tail", "ret"}

\* The pcs at which a write's locals are live.
WriteLive == {"lock", "call", "unlock", "tail"}

\* C1 (SpecRT).  Round trip: what the peer's reads deliver is at every moment a
\* prefix of the plaintext that was written, and once the peer has been handed
\* all the ciphertext and its read has returned it is the whole plaintext,
\* whatever the slicing of the plaintext, the slicing of the ciphertext and the
\* staging capacity.
RoundTrip ==
    app.side = "receiver" =>
        /\ IsPrefix(app.received, app.sent)
        /\ (rd.pc = "idle" /\ wrapped.rpos = Len(wrapped.incoming))
               => app.received = app.sent

\* C1 witness: MaxBytes bytes have made the round trip through staging buffers
\* of one byte, the ciphertext arriving over MaxReads reads.
RoundTripDone ==
    /\ app.side = "receiver"
    /\ rd.pc = "idle"
    /\ staging_size = 1
    /\ wrapped.reads = MaxReads
    /\ wrapped.rpos = Len(wrapped.incoming)
    /\ Len(app.sent) = MaxBytes
    /\ app.received = app.sent

\* C2 (Spec).  Lifetime safety for reads: from the moment a read is pending
\* until its completion has returned, the endpoint is not torn down and the
\* count is positive (exactly the read's own reference once destroy() has been
\* called); with destroy() called and no read holding a reference the endpoint
\* is torn down, once.
ReadLifetime ==
    /\ (rd.path = "pending" /\ rd.pc # "idle") => (freed = 0 /\ ep.ref > 0)
    /\ (rd.path = "pending" /\ rd.pc # "idle" /\ app.destroy_called) => ep.ref = 1
    /\ (app.destroy_called /\ rd.pc = "idle") => (freed = 1 /\ ep.ref = 0)

\* C2 witness: destroy() was called while the read was pending, and the
\* resumed read has run on_read on the endpoint, which is still there.
ReadOutlivesDestroy ==
    /\ app.destroy_called
    /\ rd.path = "pending"
    /\ rd.pc = "ret"
    /\ freed = 0

\* C3 (SpecRead).  Read failure isolation: after the unprotect call that fails
\* no other is made in that read, on_read returns 0 with the destination list
\* empty, and the application is told ERROR (synchronous paths) or has its
\* completion invoked with failure (pending path), the list still empty.
ReadFailureIsolation ==
    rd.failed_at > 0 =>
        /\ rd.pc \in ReadLive => (rd.pc \in {"unlock", "tail", "ret"}
                                  /\ rd.calls = rd.failed_at)
        /\ rd.pc = "ret" => (rd.ret = 0 /\ slices = <<>>)
        /\ rd.pc = "in_cb" => (app.read_cb_success = 0 /\ slices = <<>>)
        /\ rd.pc = "idle" =>
              /\ slices = <<>>
              /\ rd.path = "pending" => app.read_cb_success = 0
              /\ rd.path # "pending" => app.read_status = "ERROR"

\* C3 witness: the failing call was not the first, the calls before it had
\* filled at least one staging buffer, and on_read has returned.
ReadFailedAfterSeal ==
    /\ rd.pc = "ret"
    /\ rd.failed_at >= 2
    /\ Len(rd.emitted) >= staging_size
    /\ slices = <<>>

\* C4 (SpecWrite).  Write failure isolation: after the protect or flush call
\* that fails no other protector call is made in that write, and the write
\* returns ERROR with the output list empty and without having called the
\* wrapped endpoint's write.
WriteFailureIsolation ==
    wr.failed_at > 0 =>
        /\ wr.pc \in {"unlock", "tail", "idle"}
        /\ wr.pc \in WriteLive => wr.protects + wr.flushes = wr.failed_at
        /\ wr.downcalls = 0
        /\ wr.pc = "idle" =>
              /\ wr.status = "ERROR"
              /\ ep.output_buffer = <<>>
              /\ wrapped.writes = wr.writes_before

\* C4 witness: a write has returned ERROR after a protector failure that was
\* not its first call.
WriteFailedLate ==
    /\ wr.pc = "idle"
    /\ wr.failed_at >= 2
    /\ wr.status = "ERROR"

\* C5 (Spec).  Protector mutual exclusion: the two directions are never both
\* between their lock and their unlock, and a direction that is there (about
\* to make its protector call, or just back from it) holds the mutex.
ProtectorExclusion ==
    /\ ~(rd.pc \in {"call", "unlock"} /\ wr.pc \in {"call", "unlock"})
    /\ rd.pc \in {"call", "unlock"} => ep.protector_mu = "read"
    /\ wr.pc \in {"call", "unlock"} => ep.protector_mu = "write"

\* C5 witness: the reader is about to call unprotect while the writer waits
\* for the mutex.
ProtectorContended ==
    /\ rd.pc = "call"
    /\ wr.pc = "lock"

\* C6 (SpecWrite).  Flush exhaustion: a write with no protector failure leaves
\* its loops only from the flush phase, after at least one flush call, the
\* last of which reported nothing pending while each one before it reported
\* pending bytes.
FlushExhaustion ==
    (wr.pc = "tail" /\ wr.result = "TSI_OK") =>
        /\ wr.phase = "flush"
        /\ wr.flushes >= 1
        /\ wr.still_pending_size = 0
        /\ wr.flushes = wr.flushes_pending + 1

\* C6 witness: a write leaves the flush phase after more than one flush call.
FlushedTwice ==
    /\ wr.pc = "tail"
    /\ wr.result = "TSI_OK"
    /\ wr.flushes >= 2

\* C7 (SpecReplay).  Leftover replay equivalence: when the second endpoint's
\* wrapped endpoint completed its first read at once with the slices the first
\* endpoint was created with, the second read returns the status and the bytes
\* of the first, and leaves the protector and the read staging buffer as the
\* first did.
LeftoverReplay ==
    (/\ app.saved.phase = "second"
     /\ rd.pc = "idle"
     /\ rd.n = 1
     /\ rd.path = "immediate"
     /\ rd.success = 1)
    => /\ app.read_status = app.saved.status
       /\ Flatten(slices) = app.saved.bytes
       /\ ep.protector = app.saved.protector
       /\ ep.read_staging_buffer = app.saved.staging

\* C7 witness: both endpoints have read a leftover of more than one slice,
\* successfully and with plaintext delivered.
LeftoverReplayed ==
    /\ app.saved.phase = "second"
    /\ rd.pc = "idle"
    /\ rd.n = 1
    /\ rd.path = "immediate"
    /\ rd.success = 1
    /\ Len(app.saved.leftover) > 1
    /\ app.saved.status = "DONE"
    /\ app.saved.bytes # <<>>

\* C8 (SpecRead).  At most one leftover use: from the first read call on the
\* leftover list is empty; only the first read takes the leftover path, and it
\* does so without calling the wrapped endpoint's read.
LeftoverOnce ==
    /\ rd.n >= 1 => Len(ep.leftover_bytes) = 0
    /\ rd.path = "leftover" => (rd.n = 1 /\ wrapped.reads = 0)
    /\ rd.n >= 2 => (rd.path # "leftover" /\ wrapped.reads >= rd.n - 1)

\* C8 witness: the first read took the leftover and failed in the protector;
\* the second read is unprotecting what the wrapped endpoint delivered.
SecondReadAfterFailedLeftover ==
    /\ rd.n = 2
    /\ rd.pc = "call"
    /\ wrapped.reads = 1
    /\ app.read_status = "ERROR"

\* C9 (SpecRead).  A failed transport read delivers nothing: no unprotect call
\* is made, on_read returns 0 with the destination list empty, the failure is
\* reported once (ERROR returned, or the completion invoked with failure), and
\* when the read is over its reference is gone.
TransportFailureOnRead ==
    (rd.success = 0 /\ rd.n > 0) =>
        /\ rd.calls = 0
        /\ slices = <<>>
        /\ rd.pc = "ret" => (rd.ret = 0 /\ rd.reported = 0)
        /\ rd.pc = "in_cb" => (rd.reported = 1 /\ app.read_cb_success = 0)
        /\ rd.pc = "idle" =>
              /\ rd.reported = 1
              /\ rd.path = "pending" => app.read_cb_success = 0
              /\ rd.path = "immediate" => app.read_status = "ERROR"
              /\ ep.ref = IF app.destroy_called THEN 0 ELSE 1

\* C9 witness: a pending read was failed by the wrapped endpoint after
\* shutdown(), and is over.
PendingReadFailedByShutdown ==
    /\ rd.pc = "idle"
    /\ rd.path = "pending"
    /\ rd.success = 0
    /\ wrapped.shutdown = 1
    /\ rd.reported = 1

\* C10 (SpecWrite).  Write delegation: the step in which a write with no
\* protector failure leaves endpoint_write starts after the flush phase has
\* ended, calls the wrapped endpoint's write once, hands it output_buffer
\* holding every byte the protector produced in this write, and returns the
\* status the wrapped endpoint returned.
WriteDelegation ==
    [][(wr.pc = "tail" /\ wr'.pc # "tail" /\ wr.result = "TSI_OK") =>
          /\ wr.phase = "flush"
          /\ wr.still_pending_size = 0
          /\ wrapped'.writes = wrapped.writes + 1
          /\ wr'.downcalls = 1
          /\ wrapped'.written = ep'.output_buffer
          /\ Flatten(wrapped'.written) = wr.emitted
          /\ wr'.status = wrapped'.write_status
          /\ wr'.status \in {"DONE", "PENDING", "ERROR"}]_vars

\* C10 witness: a write was delegated with a sealed staging buffer and a
\* partial prefix in the list, and the wrapped endpoint left it pending.
WriteDelegated ==
    /\ wr.pc = "pending"
    /\ wr.downcalls = 1
    /\ Len(wrapped.written) >= 2
    /\ wr.status = "PENDING"

\* C11 (SpecWrite).  Lifetime safety for writes: while a write the endpoint
\* handed to the wrapped endpoint is pending, the endpoint holds a reference
\* for it, so it is not torn down and the output list the wrapped endpoint
\* writes from is still the one it was handed.
WriteLifetime ==
    wr.pc = "pending" =>
        /\ freed = 0
        /\ ep.ref > 0
        /\ ep.output_buffer = wrapped.written

\* A read is between taking its lifetime reference (line 230) and releasing it
\* (line 245, or line 136 on resumption).
ReadHoldsRef == rd.pc # "idle" /\ rd.path \in {"immediate", "pending"}

\* C12 (SpecRead).  Reference-count accounting and single teardown: before
\* teardown the count is 1 for the application (0 once destroy() was called)
\* plus 1 for a read holding its lifetime reference; teardown of the endpoint
\* and of the wrapped endpoint has run once exactly when the count is zero,
\* and not at all while it is positive.
RefAccounting ==
    /\ freed \in {0, 1}
    /\ wrapped.destroyed = freed
    /\ freed = 0 => ep.ref = (IF app.destroy_called THEN 0 ELSE 1)
                             + (IF ReadHoldsRef THEN 1 ELSE 0)
    /\ freed = 1 <=> ep.ref = 0
    /\ ep.ref >= 0

\* C12 witness: destroy() was called during a pending read; the read's
\* completion is running and the count is the read's reference alone.
CountIsTheReadsReference ==
    /\ app.destroy_called
    /\ rd.pc = "in_cb"
    /\ ReadHoldsRef
    /\ ep.ref = 1
    /\ freed = 0

\* C13 (Spec).  shutdown() only forwards: the step that shuts the wrapped
\* endpoint down calls its shutdown once and changes nothing else: not the
\* count, the protector, the staging buffers, the leftover, source and output
\* lists or the saved completion (all fields of ep), nor the teardown count,
\* the reads and writes in flight or the destination list.
ShutdownOnlyForwards ==
    [][wrapped'.shutdown # wrapped.shutdown =>
          /\ wrapped' = [wrapped EXCEPT !.shutdown = @ + 1]
          /\ ep' = ep
          /\ freed' = freed
          /\ rd' = rd
          /\ wr' = wr
          /\ slices' = slices]_vars

\* C13 witness: shutdown() was called with a read and a write pending in the
\* wrapped endpoint; the endpoint still has the application's reference and
\* the read's.
ShutdownWhilePending ==
    /\ wrapped.shutdown = 1
    /\ rd.pc = "pending"
    /\ wr.pc = "pending"
    /\ ~app.destroy_called
    /\ ep.ref = 2
    /\ ep.output_buffer # <<>>

\* The cursors of one direction (d is rd or wr) over its staging buffer: at a
\* protector call the region offered is non-empty and is the free part of the
\* staging buffer, which has at most staging_size bytes; the call's output fits.
CursorsInBuffer(d, staging) ==
    /\ d.pc \in {"lock", "call"} =>
          /\ d.cur < d.end
          /\ d.end = staging.len
          /\ staging.len <= staging_size
    /\ (d.pc = "unlock" /\ d.result = "TSI_OK") => d.cur + d.written <= d.end
    /\ d.pc \in {"lock", "call", "unlock", "tail"} => d.cur <= d.end

\* The step after a protector call that left the cursor at the end (d and s
\* before the step, d2 and s2 after it): the staging buffer, full, has joined
\* the list and a fresh one of staging_size bytes has taken its place.
SealedAndReplaced(d, d2, list, list2, s, s2) ==
    (d.pc = "unlock" /\ d2.pc # "unlock" /\ d.result = "TSI_OK"
        /\ d.cur + d.written = d.end) =>
        /\ Len(s.mem) = s.len
        /\ list2 = Append(list, s.mem)
        /\ s2 = gpr_slice_malloc(staging_size)
        /\ d2.cur = 0
        /\ d2.end = staging_size

DrainRule ==
    (rd.pc = "unlock" /\ rd'.pc # "unlock" /\ rd.result = "TSI_OK") =>
        /\ (rd.written > 0 \/ rd.cur + rd.written = rd.end)
               => (rd'.pc = "lock" /\ rd'.i = rd.i)
        /\ (rd'.pc = "tail" \/ rd'.i > rd.i)
               => /\ rd.written = 0
                  /\ rd.cur < rd.end
                  /\ rd.off + rd.consumed = Len(ep.source_buffer[rd.i])

\* C15 as stated (SpecRead).  No trapped plaintext: the drain rule, and hence
\* no plaintext ready to be handed out is left in the protector when a read
\* completes successfully.
NoTrappedPlaintextAnyRead ==
    /\ []((rd.pc = "ret" /\ rd.ret = 1) => ep.protector.uout = <<>>)
    /\ [][DrainRule]_vars

\* C15 as amended (SpecRead).  No trapped plaintext: the drain rule, and hence
\* no plaintext ready to be handed out is left in the protector when a read
\* that made at least one unprotect call completes successfully.
NoTrappedPlaintext ==
    /\ []((rd.pc = "ret" /\ rd.ret = 1 /\ rd.calls > 0) => ep.protector.uout = <<>>)
    /\ [][DrainRule]_vars

\* C15 witness: the forced extra pass: an unprotect call is about to be made
\* with no input left in the slice while the protector holds plaintext that
\* did not fit the staging buffer just sealed.
ForcedExtraPass ==
    /\ rd.pc = "call"
    /\ rd.keep_looping = 1
    /\ rd.off = Len(ep.source_buffer[rd.i])
    /\ ep.protector.uout # <<>>
    /\ slices # <<>>

\* The steps that complete a read.  A synchronous return (leftover path,
\* immediate completion, immediate error) reports DONE or ERROR and invokes no
\* completion.  The completion is invoked only for a read that returned
\* PENDING, once, after on_read has returned (destination list final, source
\* list released) and while the read's reference is held; the reference goes in
\* the step after it.
CompletionSteps ==
    /\ app'.read_cbs # app.read_cbs =>
          /\ app'.read_cbs = app.read_cbs + 1
          /\ rd.pc = "ret" /\ rd'.pc = "in_cb"
          /\ rd.path = "pending"
          /\ app.read_status = "PENDING"
          /\ rd.reported = 0
          /\ app'.read_cb_success = rd.ret
          /\ slices' = slices
          /\ ep.source_buffer = <<>>
          /\ freed = 0 /\ ep.ref > 0 /\ ep'.ref = ep.ref
    /\ (rd.pc = "ret" /\ rd'.pc = "idle") =>
          /\ rd.path \in {"leftover", "immediate"}
          /\ app'.read_cbs = app.read_cbs
          /\ rd.reported = 0
          /\ app'.read_status = IF rd.ret = 1 THEN "DONE" ELSE "ERROR"
    /\ (rd.pc = "in_cb" /\ rd'.pc = "idle") =>
          /\ ep'.ref = ep.ref - 1
          /\ app'.read_cbs = app.read_cbs

\* C16 (SpecRead).  Single-shot read completion: every read is completed once,
\* by its return (DONE, ERROR) or by the completion (after PENDING), never by
\* both and never twice; the completion runs after the destination list is
\* final and the source list released, and before the read's reference goes.
SingleShotReadCompletion ==
    /\ [](/\ rd.reported \in {0, 1}
          /\ rd.pc \in ReadLive \cup {"pending"} => rd.reported = 0
          /\ (rd.pc \in {"in_cb", "idle"} /\ rd.n > 0) => rd.reported = 1
          /\ rd.pc = "pending" => app.read_status = "PENDING"
          /\ rd.pc = "in_cb" => (rd.path = "pending" /\ ep.ref > 0 /\ freed = 0))
    /\ [][CompletionSteps]_vars

\* C17 (Spec).  Mutex hold scope: a direction holds the protector mutex exactly
\* from its lock to its unlock, with the one protector call in between, and
\* gives it back after a failed call too; the mutex is not held by a direction
\* that is returning, calling into the wrapped endpoint, pending there or in
\* the application's completion, nor when the endpoint has been torn down; a
\* direction waiting for the mutex is never stuck: either it can take it, or
\* its holder can make its call or release it.
MutexHoldScope ==
    /\ ep.protector_mu = "read" <=> rd.pc \in {"call", "unlock"}
    /\ ep.protector_mu = "write" <=> wr.pc \in {"call", "unlock"}
    /\ ep.protector_mu \in {"free", "read", "write"}
    /\ freed > 0 => ep.protector_mu = "free"
    /\ rd.pc = "lock" => ENABLED (ReadLock \/ WriteCall \/ WriteUnlock)
    /\ wr.pc = "lock" => ENABLED (WriteLock \/ ReadCall \/ ReadUnlock)

\* C17 witness: the writer's protector call failed and the writer is on its
\* way out; the reader, which had been waiting, now holds the mutex.
MutexPassedOnAfterFailure ==
    /\ wr.pc = "tail"
    /\ wr.result # "TSI_OK"
    /\ rd.pc = "call"
    /\ ep.protector_mu = "read"

\* C18 (SpecRead).  Source list released at every read completion: when
\* on_read has returned and the result is reported (returned by read, or
\* passed to the completion), whether the read succeeded, failed in the
\* protector or failed in the wrapped endpoint, the source list is empty.
SourceReleasedAtCompletion ==
    rd.pc \in {"ret", "in_cb"} => ep.source_buffer = <<>>

\* While an operation runs (d is rd or wr), the bytes sealed into its list
\* followed by the bytes written to its staging buffer so far are the bytes the
\* protector has put out in this operation, in order.
StagedSoFar(d, list, staging) ==
    /\ d.pc \in {"lock", "call"} =>
          Flatten(list) \o Take(staging.mem, d.cur) = d.emitted
    /\ (d.pc = "unlock" /\ d.result = "TSI_OK") =>
          Flatten(list) \o Take(staging.mem, d.cur + d.written) = d.emitted

\* C19 (SpecSeq).  Staging preserves the protector's output: a read that
\* succeeds returns a destination list whose bytes are, in order, the outputs
\* of its unprotect calls; a write with no protector failure hands the wrapped
\* endpoint a list whose bytes are, in order, the outputs of its protect calls
\* and then of its flush calls; and so it is at every point on the way.
StagingPreservesOutput ==
    /\ [](/\ StagedSoFar(rd, slices, ep.read_staging_buffer)
          /\ StagedSoFar(wr, ep.output_buffer, ep.write_staging_buffer)
          /\ (rd.pc = "ret" /\ rd.ret = 1) => Flatten(slices) = rd.emitted)
    /\ [][(wr.pc = "tail" /\ wr'.pc # "tail" /\ wr.result = "TSI_OK") =>
              /\ Flatten(wrapped'.written) = wr.emitted
              /\ wr.phase = "flush"]_vars

\* C19 witness: after a write that handed the wrapped endpoint a sealed buffer
\* and a partial prefix, a read returns successfully a sealed buffer and a
\* partial prefix.
SealedAndPartialBothWays ==
    /\ wr.n = 1
    /\ wr.downcalls = 1
    /\ Len(wrapped.written) >= 2
    /\ rd.pc = "ret"
    /\ rd.ret = 1
    /\ Len(slices) >= 2
    /\ Len(slices[Len(slices)]) < staging_size

\* The protector calls an operation may have made so far: one per input byte
\* consumed, one per output byte produced, and one closing call per input slice
\* (read) or for the flush phase (write).
ReadCallBound == Len(Flatten(ep.source_buffer)) + Len(rd.emitted) + Len(ep.source_buffer)

WriteCallBound == Len(Flatten(wr.slices)) + Len(wr.emitted) + 1

\* C20 (SpecDrain).  Drain loops terminate: a read drain that has been entered
\* reaches its end and a write that has been entered leaves its protect and
\* flush loops, each after a number of protector calls bounded by the bytes
\* it consumes and produces.
DrainsTerminate ==
    /\ [](/\ rd.pc \in {"lock", "call", "unlock"} => rd.calls <= ReadCallBound
          /\ wr.pc \in {"lock", "call", "unlock"} =>
                 wr.protects + wr.flushes <= WriteCallBound)
    /\ (rd.pc \in {"on_read", "lock", "call", "unlock"} ~> rd.pc \in {"tail", "ret"})
    /\ (wr.pc \in {"lock", "call", "unlock"} ~> wr.pc = "tail")

\* C20 witness: a read drain has ended after forced extra passes (more calls
\* than input slices and sealed buffers together need), and a write has ended
\* after more than one flush call.
DrainsEnded ==
    /\ rd.pc = "tail"
    /\ rd.result = "TSI_OK"
    /\ rd.calls >= 3
    /\ wr.n >= 1
    /\ wr.downcalls = 1

=============================================================================
